---- MODULE Spec2Model ----
(***************************************************************************)
(* A model of blackJack.py: one player against the dealer, with splitting  *)
(* and doubling down.  The state is the BlackJack object (bankroll, deck,  *)
(* the three hands, the two bets, the split flag), the local variable      *)
(* `move' of entity_play, and the position of the control flow of          *)
(* BlackJack.game.  There is one action per prompt or call of game().      *)
(*                                                                         *)
(* random.shuffle makes every order of the deck possible and the program   *)
(* only ever pops the deck, so the deck is kept as the set of cards not    *)
(* yet drawn and deck.pop() takes one of them.  The program reads the rank *)
(* and the value of a card and never its suit (which it only prints), so   *)
(* the shuffles tried are those in which the cards of one rank come off    *)
(* the deck in the order of the suits of make_cards: every sequence of     *)
(* ranks that some shuffle deals is dealt.                                 *)
(***************************************************************************)
EXTENDS Integers, Sequences, FiniteSets, TLC

VARIABLES
    start_amount,   \* BlackJack.start_amount: the bankroll
    deck,           \* BlackJack.deck: the cards not drawn yet
    hand,           \* Entity.hand of player, player_split and dealer
    money,          \* Player.money of player and player_split
    split,          \* BlackJack.split
    move,           \* the local `move' of entity_play ("" before any move)
    pc,             \* position in BlackJack.game
    rounds,         \* rounds completed (reset() calls), to bound the session
    returned        \* ScoreSpec: what get_hand_value returned (-1: not called)

vars == <<start_amount, deck, hand, money, split, move, pc, rounds, returned>>

-----------------------------------------------------------------------------
(* Bounds *)

\* rounds played before the session is cut off
MaxRounds == 1

\* longest hand given to get_hand_value in ScoreSpec
MaxHandLen == 3

\* the deck the rounds are played with: of each of these ranks, the cards
\* of its first DeckCopies[rank] suits (make_cards builds the cards of all
\* thirteen ranks in all four suits)
DeckCopies == ("A" :> 2) @@ ("6" :> 3) @@ ("Q" :> 1) @@ ("K" :> 3)
DeckRanks == DOMAIN DeckCopies

\* the outcomes of random.randint(1_000, 10_000) that are tried
StartDraws == {1000}

-----------------------------------------------------------------------------
(* Cards *)

\* the list `suits' of make_cards
suits == <<"spade", "club", "heart", "diamond">>

AllSuits == {suits[i] : i \in 1..Len(suits)}

suit_index == [s \in AllSuits |-> CHOOSE i \in 1..Len(suits) : suits[i] = s]

NumberRanks == {"2", "3", "4", "5", "6", "7", "8", "9", "10"}

FaceRanks == {"J", "Q", "K"}

AllRanks == NumberRanks \cup FaceRanks \cup {"A"}

\* the `value' make_cards gives to a card of each rank
rank_value ==
    [r \in AllRanks |->
        CASE r = "2" -> 2 [] r = "3" -> 3 [] r = "4" -> 4 [] r = "5" -> 5
          [] r = "6" -> 6 [] r = "7" -> 7 [] r = "8" -> 8 [] r = "9" -> 9
          [] r = "10" -> 10
          [] r \in FaceRanks -> 10
          [] r = "A" -> 1]

Card(rank, suit) == [rank |-> rank, suit |-> suit, value |-> rank_value[rank]]

\* make_cards(), restricted to the suits and ranks of the bounds
make_cards ==
    UNION {{Card(r, suits[i]) : i \in 1..DeckCopies[r]} : r \in DeckRanks}

\* the cards deck.pop() may return from the cards d that are left
pop(d) ==
    {c \in d : \A x \in d :
        x.rank = c.rank => suit_index[c.suit] <= suit_index[x.suit]}

roundup(x) == IF x % 100 = 0 THEN x ELSE x + 100 - (x % 100)

-----------------------------------------------------------------------------
(* Entities *)

Players == {"player", "player_split"}

Entities == Players \cup {"dealer"}

\* Entity.limit as set by Player.__init__ and Dealer.__init__
limit == [e \in Entities |-> IF e = "dealer" THEN 17 ELSE 21]

RECURSIVE sum_values(_)
sum_values(h) == IF h = <<>> THEN 0 ELSE Head(h).value + sum_values(Tail(h))

RECURSIVE aces_count(_)
aces_count(h) ==
    IF h = <<>> THEN 0
    ELSE (IF Head(h).rank = "A" THEN 1 ELSE 0) + aces_count(Tail(h))

\* the second loop of get_hand_value: once per ace, add 10 if that stays
\* within the limit
\* promote_aces with < for <=: an ace is not promoted onto the limit itself
RECURSIVE promote_aces_strict(_, _, _)
promote_aces_strict(value, n, lim) ==
    IF n = 0 THEN value
    ELSE promote_aces_strict(IF value + 10 < lim THEN value + 10 ELSE value,
                             n - 1, lim)

RECURSIVE promote_aces(_, _, _)
promote_aces(value, n, lim) ==
    IF n = 0 THEN value
    ELSE promote_aces(IF value + 10 <= lim THEN value + 10 ELSE value,
                      n - 1, lim)

hand_value(h, lim) == promote_aces(sum_values(h), aces_count(h), lim)

\* entity.get_hand_value()
get_hand_value(e) == hand_value(hand[e], limit[e])

-----------------------------------------------------------------------------
(* The session: BlackJack.__init__ and BlackJack.game *)

NoMoney == [e \in Players |-> 0]

\* the four pops of __init__ and of reset: two for the player, two for the
\* dealer, from a fresh deck; player_split starts with no cards
Deal(c1, c2, c3, c4) ==
    /\ hand' = [e \in Entities |->
                  CASE e = "player" -> <<c1, c2>>
                    [] e = "dealer" -> <<c3, c4>>
                    [] e = "player_split" -> <<>>]
    /\ deck' = make_cards \ {c1, c2, c3, c4}

Init ==
    /\ start_amount \in {roundup(x) : x \in StartDraws}
    /\ \E c1 \in pop(make_cards) : \E c2 \in pop(make_cards \ {c1}) :
       \E c3 \in pop(make_cards \ {c1, c2}) :
       \E c4 \in pop(make_cards \ {c1, c2, c3}) :
          /\ hand = [e \in Entities |->
                       CASE e = "player" -> <<c1, c2>>
                         [] e = "dealer" -> <<c3, c4>>
                         [] e = "player_split" -> <<>>]
          /\ deck = make_cards \ {c1, c2, c3, c4}
    /\ money = NoMoney
    /\ split = FALSE
    /\ move = ""
    /\ pc = "game"
    /\ rounds = 0
    /\ returned = -1

\* game(): the bankroll is below 1 at the top of the loop: sys.exit()
game_broke ==
    /\ pc = "game"
    /\ start_amount < 1
    /\ pc' = "broke"
    /\ UNCHANGED <<start_amount, deck, hand, money, split, move, rounds, returned>>

\* what may be typed at the bet prompt for a maximum of amt: Q, a text that
\* is no number, and the numbers around the limits of the accepted range
BetInputs(amt) ==
    {[kind |-> "Q", n |-> 0], [kind |-> "text", n |-> 0]}
      \cup {[kind |-> "int", n |-> k] : k \in {0, amt \div 2, amt, amt + 1}}

\* entity_bet taking the stake out of the bankroll when the bet is accepted
entity_bet_takes_stake ==
    /\ pc = "game"
    /\ start_amount >= 1
    /\ \E inp \in BetInputs(start_amount) :
          \/ /\ inp.kind = "Q"
             /\ pc' = "quit"
             /\ UNCHANGED <<money, start_amount>>
          \/ /\ inp.kind = "int"
             /\ 1 <= inp.n /\ inp.n <= start_amount
             /\ rounds < MaxRounds
             /\ money' = [money EXCEPT !["player"] = inp.n]
             /\ start_amount' = start_amount - inp.n
             /\ pc' = "play_player"
          \/ /\ inp.kind = "int"
             /\ ~(1 <= inp.n /\ inp.n <= start_amount)
             /\ UNCHANGED <<money, pc, start_amount>>
          \/ /\ inp.kind = "text"
             /\ UNCHANGED <<money, pc, start_amount>>
    /\ UNCHANGED <<deck, hand, split, move, rounds, returned>>

\* entity_bet called without the test of the bankroll at the top of the
\* loop of game()
entity_bet_when_broke ==
    /\ pc = "game"
    /\ \E inp \in BetInputs(start_amount) :
          \/ /\ inp.kind = "Q"
             /\ pc' = "quit"
             /\ UNCHANGED money
          \/ /\ inp.kind = "int"
             /\ 1 <= inp.n /\ inp.n <= start_amount
             /\ rounds < MaxRounds
             /\ money' = [money EXCEPT !["player"] = inp.n]
             /\ pc' = "play_player"
          \/ /\ inp.kind = "int"
             /\ ~(1 <= inp.n /\ inp.n <= start_amount)
             /\ UNCHANGED <<money, pc>>
          \/ /\ inp.kind = "text"
             /\ UNCHANGED <<money, pc>>
    /\ UNCHANGED <<start_amount, deck, hand, split, move, rounds, returned>>

\* entity_bet(self.player, self.start_amount), one input of its loop; the
\* session is cut off where the bet of a round past MaxRounds is accepted
entity_bet ==
    /\ pc = "game"
    /\ start_amount >= 1
    /\ \E inp \in BetInputs(start_amount) :
          \/ /\ inp.kind = "Q"
             /\ pc' = "quit"
             /\ UNCHANGED money
          \/ /\ inp.kind = "int"
             /\ 1 <= inp.n /\ inp.n <= start_amount
             /\ rounds < MaxRounds
             /\ money' = [money EXCEPT !["player"] = inp.n]
             /\ pc' = "play_player"
          \/ /\ inp.kind = "int"
             /\ ~(1 <= inp.n /\ inp.n <= start_amount)
             /\ UNCHANGED <<money, pc>>
          \/ /\ inp.kind = "text"
             /\ UNCHANGED <<money, pc>>
    /\ UNCHANGED <<start_amount, deck, hand, split, move, rounds, returned>>

-----------------------------------------------------------------------------
(* The player's turns: entity_play and the moves it dispatches to *)

\* where game() is while entity_play(entity) runs its loop, and where it
\* goes when entity_play(entity) returns
play_pc(e) == IF e = "player" THEN "play_player" ELSE "play_split"

after_play(e) == IF e = "player" THEN "enter_split" ELSE "check_dealer"

\* possible_moves without the test of the split flag
possible_moves_resplit(entity) ==
    {"H", "S"}
      \cup (IF /\ Len(hand[entity]) = 2
               /\ start_amount - money[entity] >= money[entity]
               /\ entity = "player"
            THEN {"D"} \cup (IF hand[entity][1].rank = hand[entity][2].rank
                             THEN {"X"} ELSE {})
            ELSE {})

\* possible_moves without the test that the bankroll covers a second bet
possible_moves_unfunded(entity) ==
    {"H", "S"}
      \cup (IF /\ Len(hand[entity]) = 2
               /\ entity = "player"
               /\ ~split
            THEN {"D"} \cup (IF hand[entity][1].rank = hand[entity][2].rank
                             THEN {"X"} ELSE {})
            ELSE {})

\* possible_moves without the test that the hand has 2 cards
possible_moves_any_length(entity) ==
    {"H", "S"}
      \cup (IF /\ start_amount - money[entity] >= money[entity]
               /\ entity = "player"
               /\ ~split
            THEN {"D"} \cup (IF hand[entity][1].rank = hand[entity][2].rank
                             THEN {"X"} ELSE {})
            ELSE {})

\* the moves entity_possible_moves(entity) puts in its list `moves'
possible_moves(entity) ==
    {"H", "S"}
      \cup (IF /\ Len(hand[entity]) = 2
               /\ start_amount - money[entity] >= money[entity]
               /\ entity = "player"
               /\ ~split
            THEN {"D"} \cup (IF hand[entity][1].rank = hand[entity][2].rank
                             THEN {"X"} ELSE {})
            ELSE {})

\* what may be typed at the move prompt
MoveInputs == {"H", "S", "D", "X", "Q", "?"}

\* the input loop without the tests that D and X are in the list `moves'
accepted_any_move(entity, choice) == choice \in {"H", "S", "D", "X"}

\* the input loop of entity_possible_moves(entity): the choice is returned
accepted(entity, choice) ==
    \/ choice \in {"H", "S"}
    \/ choice = "D" /\ "D" \in possible_moves(entity)
    \/ choice = "X" /\ "X" \in possible_moves(entity)

\* entity_play always asks entity_possible_moves about self.player,
\* whichever hand is being played
prompt(choice) == accepted("player", choice)

\* entity_hit reading the top card without taking it off the deck
entity_hit_keeps_card(e, c) ==
    /\ c \in pop(deck)
    /\ deck' = deck
    /\ hand' = [hand EXCEPT ![e] = Append(@, c)]

\* entity_hit(entity), drawing card c
entity_hit(e, c) ==
    /\ c \in pop(deck)
    /\ deck' = deck \ {c}
    /\ hand' = [hand EXCEPT ![e] = Append(@, c)]

\* entity_play(self.player_split) when the player did not split: it returns
\* at once; otherwise it enters its loop
entity_play_enter ==
    /\ pc = "enter_split"
    /\ pc' = IF ~split THEN "check_dealer" ELSE "play_split"
    /\ UNCHANGED <<start_amount, deck, hand, money, split, move, rounds, returned>>

\* the test at the top of the loop going round the loop again (continue)
\* where it should return
entity_play_bust_goes_on(e) ==
    /\ pc = play_pc(e)
    /\ get_hand_value(e) > limit[e]
    /\ UNCHANGED vars

\* top of the loop of entity_play: the hand is over its limit
entity_play_bust(e) ==
    /\ pc = play_pc(e)
    /\ get_hand_value(e) > limit[e]
    /\ pc' = after_play(e)
    /\ UNCHANGED <<start_amount, deck, hand, money, split, move, rounds, returned>>

\* the prompt rejects the input and asks again
entity_play_invalid(e) ==
    /\ pc = play_pc(e)
    /\ ~(get_hand_value(e) > limit[e])
    /\ \E choice \in MoveInputs : ~prompt(choice)
    /\ UNCHANGED vars

\* move S: entity_stand(entity), return
entity_play_stand(e) ==
    /\ pc = play_pc(e)
    /\ ~(get_hand_value(e) > limit[e])
    /\ prompt("S")
    /\ move' = "S"
    /\ pc' = after_play(e)
    /\ UNCHANGED <<start_amount, deck, hand, money, split, rounds, returned>>

\* entity_double_down(entity): the bet is doubled and one card drawn
entity_double_down(e) ==
    /\ money' = [money EXCEPT ![e] = @ * 2]
    /\ \E c \in pop(deck) : entity_hit(e, c)

\* move D without the return after entity_double_down
entity_play_double_down_goes_on(e) ==
    /\ pc = play_pc(e)
    /\ ~(get_hand_value(e) > limit[e])
    /\ prompt("D")
    /\ move' = "D"
    /\ entity_double_down(e)
    /\ UNCHANGED <<start_amount, split, pc, rounds, returned>>

\* move D: entity_double_down(entity), return
entity_play_double_down(e) ==
    /\ pc = play_pc(e)
    /\ ~(get_hand_value(e) > limit[e])
    /\ prompt("D")
    /\ move' = "D"
    /\ entity_double_down(e)
    /\ pc' = after_play(e)
    /\ UNCHANGED <<start_amount, split, rounds, returned>>

\* move H without the test at the top of the loop that the hand is bust
entity_play_hit_when_bust(e) ==
    /\ pc = play_pc(e)
    /\ prompt("H")
    /\ move' = "H"
    /\ \/ /\ \E c \in pop(deck) : entity_hit(e, c)
          /\ UNCHANGED pc
       \/ /\ deck = {}
          /\ pc' = "crashed"
          /\ UNCHANGED <<deck, hand>>
    /\ UNCHANGED <<start_amount, money, split, rounds, returned>>

\* move H: entity_hit(entity), and the loop goes on; deck.pop() on an empty
\* deck raises IndexError, which nothing catches: the program ends
entity_play_hit(e) ==
    /\ pc = play_pc(e)
    /\ ~(get_hand_value(e) > limit[e])
    /\ prompt("H")
    /\ move' = "H"
    /\ \/ /\ \E c \in pop(deck) : entity_hit(e, c)
          /\ UNCHANGED pc
       \/ /\ deck = {}
          /\ pc' = "crashed"
          /\ UNCHANGED <<deck, hand>>
    /\ UNCHANGED <<start_amount, money, split, rounds, returned>>

\* entity_split without the card drawn for the player's own hand
entity_split_one_draw ==
    /\ split' = TRUE
    /\ \E c1 \in pop(deck) :
         LET card == hand["player"][Len(hand["player"])]
             rest == SubSeq(hand["player"], 1, Len(hand["player"]) - 1)
         IN  /\ hand' = [hand EXCEPT
                           !["player_split"] = @ \o <<card, c1>>,
                           !["player"] = rest]
             /\ deck' = deck \ {c1}
    /\ money' = [money EXCEPT !["player_split"] = money["player"]]

\* entity_split(): the last card of the player's hand and a card from the
\* deck make the second hand, which gets the player's bet; the player's
\* hand gets another card from the deck
entity_split ==
    /\ split' = TRUE
    /\ \E c1 \in pop(deck) : \E c2 \in pop(deck \ {c1}) :
         LET card == hand["player"][Len(hand["player"])]
             rest == SubSeq(hand["player"], 1, Len(hand["player"]) - 1)
         IN  /\ hand' = [hand EXCEPT
                           !["player_split"] = @ \o <<card, c1>>,
                           !["player"] = Append(rest, c2)]
             /\ deck' = deck \ {c1, c2}
    /\ money' = [money EXCEPT !["player_split"] = money["player"]]

\* split_continues with <= for <
split_continues_at_limit(e) ==
    e = "player" /\ hand_value(hand'["player"], limit["player"]) <= limit["player"]

\* after entity_split(): the loop of entity_play goes on (continue)
split_continues(e) ==
    e = "player" /\ hand_value(hand'["player"], limit["player"]) < limit["player"]

\* move X: entity_split(), then continue or return
entity_play_split(e) ==
    /\ pc = play_pc(e)
    /\ ~(get_hand_value(e) > limit[e])
    /\ prompt("X")
    /\ move' = "X"
    /\ entity_split
    /\ pc' = IF split_continues(e) THEN pc ELSE after_play(e)
    /\ UNCHANGED <<start_amount, rounds, returned>>

entity_play(e) ==
    \/ entity_play_bust(e)
    \/ entity_play_invalid(e)
    \/ entity_play_stand(e)
    \/ entity_play_double_down(e)
    \/ entity_play_hit(e)
    \/ entity_play_split(e)

-----------------------------------------------------------------------------
(* The dealer's turn *)

\* dealer_plays without the test of the second hand
dealer_plays_main_only == get_hand_value("player") <= limit["player"]

\* the condition under which check_if_dealer_plays calls dealer_play
dealer_plays ==
    \/ get_hand_value("player") <= limit["player"]
    \/ split /\ get_hand_value("player_split") <= limit["player_split"]

check_if_dealer_plays ==
    /\ pc = "check_dealer"
    /\ pc' = IF dealer_plays THEN "dealer_play" ELSE "wins_player"
    /\ UNCHANGED <<start_amount, deck, hand, money, split, move, rounds, returned>>

\* the loop condition of dealer_play
dealer_hits == get_hand_value("dealer") < 17

\* the test after the dealer's draw that makes dealer_play return
dealer_bust_after_draw ==
    hand_value(hand'["dealer"], limit["dealer"]) > limit["dealer"] + 4

\* one pass of the loop of dealer_play, or its end; deck.pop() on an empty
\* deck raises IndexError and the program ends
dealer_play ==
    /\ pc = "dealer_play"
    /\ \/ /\ dealer_hits
          /\ \E c \in pop(deck) : entity_hit("dealer", c)
          /\ pc' = IF dealer_bust_after_draw THEN "wins_player" ELSE pc
       \/ /\ dealer_hits
          /\ deck = {}
          /\ pc' = "crashed"
          /\ UNCHANGED <<deck, hand>>
       \/ /\ ~dealer_hits
          /\ pc' = "wins_player"
          /\ UNCHANGED <<deck, hand>>
    /\ UNCHANGED <<start_amount, money, split, move, rounds, returned>>

-----------------------------------------------------------------------------
(* Settlement and reset *)

\* settlement with the dealer's bust tested before the hand's own
settlement_dealer_first(entity_value, dealer_value, entity_money, lim) ==
    IF dealer_value > 21 THEN entity_money
    ELSE IF entity_value > lim THEN 0 - entity_money
    ELSE IF entity_value < dealer_value THEN 0 - entity_money
    ELSE IF entity_value > dealer_value THEN entity_money
    ELSE 0

\* what check_who_wins adds to start_amount for a hand of value
\* entity_value and limit lim with bet entity_money, against dealer_value
settlement(entity_value, dealer_value, entity_money, lim) ==
    IF entity_value > lim THEN 0 - entity_money
    ELSE IF dealer_value > 21 THEN entity_money
    ELSE IF entity_value < dealer_value THEN 0 - entity_money
    ELSE IF entity_value > dealer_value THEN entity_money
    ELSE 0

\* check_who_wins returns at once for the second hand when there was no split
settles(e) == e = "player" \/ split

wins_pc(e) == IF e = "player" THEN "wins_player" ELSE "wins_split"

after_wins(e) == IF e = "player" THEN "wins_split" ELSE "continue"

\* check_who_wins reading the value of self.player for either hand
check_who_wins_first_hand(e) ==
    /\ pc = wins_pc(e)
    /\ start_amount' =
          IF settles(e)
          THEN start_amount + settlement(get_hand_value("player"),
                                         get_hand_value("dealer"),
                                         money[e], limit[e])
          ELSE start_amount
    /\ pc' = after_wins(e)
    /\ UNCHANGED <<deck, hand, money, split, move, rounds, returned>>

check_who_wins(e) ==
    /\ pc = wins_pc(e)
    /\ start_amount' =
          IF settles(e)
          THEN start_amount + settlement(get_hand_value(e),
                                         get_hand_value("dealer"),
                                         money[e], limit[e])
          ELSE start_amount
    /\ pc' = after_wins(e)
    /\ UNCHANGED <<deck, hand, money, split, move, rounds, returned>>

\* reset() without the line that clears the split flag
reset_keeps_split ==
    /\ pc = "continue"
    /\ \E c1 \in pop(make_cards) : \E c2 \in pop(make_cards \ {c1}) :
       \E c3 \in pop(make_cards \ {c1, c2}) :
       \E c4 \in pop(make_cards \ {c1, c2, c3}) :
          Deal(c1, c2, c3, c4)
    /\ money' = NoMoney
    /\ move' = ""
    /\ rounds' = rounds + 1
    /\ pc' = "game"
    /\ UNCHANGED <<start_amount, split, returned>>

\* "Press Enter to continue...", then reset(): a new deck, new hands, the
\* bets and the split flag cleared
reset ==
    /\ pc = "continue"
    /\ \E c1 \in pop(make_cards) : \E c2 \in pop(make_cards \ {c1}) :
       \E c3 \in pop(make_cards \ {c1, c2}) :
       \E c4 \in pop(make_cards \ {c1, c2, c3}) :
          Deal(c1, c2, c3, c4)
    /\ money' = NoMoney
    /\ split' = FALSE
    /\ move' = ""
    /\ rounds' = rounds + 1
    /\ pc' = "game"
    /\ UNCHANGED <<start_amount, returned>>

Next ==
    \/ game_broke
    \/ entity_bet
    \/ entity_play("player")
    \/ entity_play_enter
    \/ entity_play("player_split")
    \/ check_if_dealer_plays
    \/ dealer_play
    \/ check_who_wins("player")
    \/ check_who_wins("player_split")
    \/ reset

Spec == Init /\ [][Next]_vars

-----------------------------------------------------------------------------
(* One round, played to its end.  The 52 cards of make_cards outlast any    *)
(* round; the cards of RoundCopies are enough for that too, so that no      *)
(* deck.pop() of the round fails.  The round ends before reset().           *)

\* the deck of the round: the cards of the first RoundCopies[rank] suits of
\* these ranks
RoundCopies == ("A" :> 2) @@ ("6" :> 2) @@ ("Q" :> 2) @@ ("K" :> 4)

round_cards ==
    UNION {{Card(r, suits[i]) : i \in 1..RoundCopies[r]} : r \in DOMAIN RoundCopies}

\* BlackJack.__init__ with the deck of the round
RoundInit ==
    /\ start_amount \in {roundup(x) : x \in StartDraws}
    /\ \E c1 \in pop(round_cards) : \E c2 \in pop(round_cards \ {c1}) :
       \E c3 \in pop(round_cards \ {c1, c2}) :
       \E c4 \in pop(round_cards \ {c1, c2, c3}) :
          /\ hand = [e \in Entities |->
                       CASE e = "player" -> <<c1, c2>>
                         [] e = "dealer" -> <<c3, c4>>
                         [] e = "player_split" -> <<>>]
          /\ deck = round_cards \ {c1, c2, c3, c4}
    /\ money = NoMoney
    /\ split = FALSE
    /\ move = ""
    /\ pc = "game"
    /\ rounds = 0
    /\ returned = -1

\* the body of the loop of game() up to the second check_who_wins
RoundNext ==
    \/ entity_bet
    \/ entity_play("player")
    \/ entity_play_enter
    \/ entity_play("player_split")
    \/ check_if_dealer_plays
    \/ dealer_play
    \/ check_who_wins("player")
    \/ check_who_wins("player_split")

\* a step that changes the state is a step of the program itself or an
\* input that a prompt accepts (an input it rejects leaves the state as it
\* is): the program runs on, and the player does not type rejected inputs
\* for ever
RoundSpec == RoundInit /\ [][RoundNext]_vars /\ WF_vars(RoundNext)

-----------------------------------------------------------------------------
(* get_hand_value on its own: every hand of up to MaxHandLen cards of any   *)
(* ranks is given to each entity and scored.                                *)

TestHands ==
    UNION {{[i \in 1..n |-> Card(rs[i], suits[((i - 1) % Len(suits)) + 1])] :
               rs \in [1..n -> AllRanks]} : n \in 1..MaxHandLen}

scored_pc(e) ==
    CASE e = "player" -> "scored_player"
      [] e = "player_split" -> "scored_split"
      [] e = "dealer" -> "scored_dealer"

ScoreInit ==
    /\ \E h \in TestHands : hand = [e \in Entities |-> h]
    /\ start_amount = 0
    /\ deck = {}
    /\ money = NoMoney
    /\ split = FALSE
    /\ move = ""
    /\ pc = "score"
    /\ rounds = 0
    /\ returned = -1

\* a call of entity.get_hand_value()
score(e) ==
    /\ pc = "score"
    /\ returned' = get_hand_value(e)
    /\ pc' = scored_pc(e)
    /\ UNCHANGED <<start_amount, deck, hand, money, split, move, rounds>>

ScoreNext == \E e \in Entities : score(e)

ScoreSpec == ScoreInit /\ [][ScoreNext]_vars

-----------------------------------------------------------------------------
(* Claims *)

ranks_of(h) == [i \in 1..Len(h) |-> h[i].rank]

\* the values a card may be counted at: an ace 1 or 11, any other card its
\* value (J, Q and K 10)
card_options(c) == IF c.rank = "A" THEN {1, 11} ELSE {c.value}

\* every total of a hand, over the ways of counting its aces
RECURSIVE totals(_)
totals(h) ==
    IF h = <<>> THEN {0}
    ELSE {v + t : v \in card_options(Head(h)), t \in totals(Tail(h))}

set_max(S) == CHOOSE x \in S : \A y \in S : y <= x

set_min(S) == CHOOSE x \in S : \A y \in S : x <= y

\* the largest total that does not exceed 21, or else the total with every
\* ace counted as 1
best_total(h) ==
    IF \E t \in totals(h) : t <= 21
    THEN set_max({t \in totals(h) : t <= 21})
    ELSE set_min(totals(h))

\* the hands with the cards of h in another order
orders_of(h) ==
    {[i \in 1..Len(h) |-> h[p[i]]] :
        p \in {q \in [1..Len(h) -> 1..Len(h)] :
                  \A i, j \in 1..Len(h) : q[i] = q[j] => i = j}}

\* C3: for a player hand get_hand_value returns the largest total not over
\* 21 obtainable by counting each ace as 1 or 11, or the total with all aces
\* as 1 when there is none; [A,A] is 12, [A,9] 20, [A,A,9] 21, [K,A] 21,
\* [K,Q,A] 21; and the order of the cards does not matter.
C3_AceResolution ==
    pc = "scored_player" =>
        /\ returned = best_total(hand["player"])
        /\ \A g \in orders_of(hand["player"]) :
              hand_value(g, limit["player"]) = returned
        /\ ranks_of(hand["player"]) = <<"A", "A">> => returned = 12
        /\ ranks_of(hand["player"]) = <<"A", "9">> => returned = 20
        /\ ranks_of(hand["player"]) = <<"A", "A", "9">> => returned = 21
        /\ ranks_of(hand["player"]) = <<"K", "A">> => returned = 21
        /\ ranks_of(hand["player"]) = <<"K", "Q", "A">> => returned = 21

C3_Witness ==
    /\ pc = "scored_player"
    /\ ranks_of(hand["player"]) = <<"K", "Q", "A">>
    /\ returned = 21

\* the score of a hand as the rules state it: aces count 11 while the total
\* stays at or below 21
score21(e) == best_total(hand[e])

\* the change of the bankroll the rules give a hand of score E and bet B
\* against a dealer of score D
payout(E, D, B) ==
    CASE E > 21 -> 0 - B
      [] E <= 21 /\ D > 21 -> B
      [] E <= 21 /\ D <= 21 /\ E < D -> 0 - B
      [] E <= 21 /\ D <= 21 /\ E > D -> B
      [] E <= 21 /\ D <= 21 /\ E = D -> 0

\* the hands that exist: the main hand, and the split hand after a split
exists(e) == e = "player" \/ split

\* C1: settling a hand of score E and bet B against a dealer of score D
\* lowers the bankroll by B if E > 21; otherwise raises it by B if D > 21;
\* otherwise lowers it by B if E < D, raises it by B if E > D and leaves it
\* unchanged if E = D.
C1_Settlement ==
    [][\A e \in Players :
          pc = wins_pc(e) /\ exists(e) =>
             start_amount' =
                start_amount + payout(score21(e), score21("dealer"), money[e])]_vars

\* the main hand bust and the dealer bust too: the bet is lost
C1_Witness ==
    /\ pc = "wins_split"
    /\ rounds = 0
    /\ score21("player") > 21
    /\ score21("dealer") > 21
    /\ money["player"] = 500
    /\ start_amount = 500

\* C2: the dealer's score, in the hit loop and at settlement, is computed
\* with aces promoted up to a total of 21 (A and K score 21, A and 7
\* score 18).
C2_DealerCeiling21 ==
    pc \in {"dealer_play", "wins_player", "wins_split"} =>
        /\ get_hand_value("dealer") = score21("dealer")
        /\ ranks_of(hand["dealer"]) = <<"A", "K">> =>
              get_hand_value("dealer") = 21

\* a step of dealer_play in which the dealer draws a card
dealer_draws ==
    pc = "dealer_play" /\ Len(hand'["dealer"]) = Len(hand["dealer"]) + 1

\* C4: the dealer draws only while its score is below 17 (so never at 17 or
\* more, and never after going over 21), and when the dealer's turn has
\* been played to its end the dealer's score is at least 17.
C4_DealerPolicy ==
    [][/\ dealer_draws => score21("dealer") < 17
       /\ pc = "dealer_play" /\ pc' = "wins_player" =>
             best_total(hand'["dealer"]) >= 17]_vars

\* some hand that exists has not gone over 21
some_hand_alive == \E e \in Players : exists(e) /\ score21(e) <= 21

\* C5: the dealer plays its turn if and only if some existing player hand
\* has a score of at most 21 when the player turns are over; when every
\* existing hand is bust the dealer draws no card and has its 2 initial
\* cards at settlement.
C5_DealerPlaysIff ==
    /\ [][pc = "check_dealer" => (pc' = "dealer_play" <=> some_hand_alive)]_vars
    /\ [](pc \in {"wins_player", "wins_split", "continue"} /\ ~some_hand_alive
             => Len(hand["dealer"]) = 2)

\* both hands of a split are bust and the dealer has not drawn
C5_Witness ==
    /\ pc = "wins_player"
    /\ split
    /\ score21("player") > 21
    /\ score21("player_split") > 21
    /\ Len(hand["dealer"]) = 2

\* the move prompt of entity e is showing
at_prompt(e) == pc = play_pc(e) /\ ~(get_hand_value(e) > limit[e])

\* a step that splits: only entity_split gives the second hand two cards
split_step == Len(hand'["player_split"]) = Len(hand["player_split"]) + 2

\* C6: at a move prompt Split is offered, and X accepted, if and only if
\* the hand played is the main hand, it has exactly 2 cards of equal rank,
\* no split has occurred in the round and bankroll minus the hand's bet is
\* at least the bet; so there is at most one split per round, the split
\* hand is never split and a hand of 3 or more cards is never split.
C6_SplitOffered ==
    /\ [](\A e \in Players :
            at_prompt(e) =>
               (prompt("X") <=>
                   /\ e = "player"
                   /\ Len(hand[e]) = 2
                   /\ hand[e][1].rank = hand[e][2].rank
                   /\ ~split
                   /\ start_amount - money[e] >= money[e]))
    /\ [][split_step =>
             /\ pc = "play_player"
             /\ ~split
             /\ Len(hand["player"]) = 2
             /\ hand["player_split"] = <<>>]_vars

\* after a split the main hand is a pair again, with money for another bet
C6_Witness ==
    /\ at_prompt("player")
    /\ split
    /\ Len(hand["player"]) = 2
    /\ hand["player"][1].rank = hand["player"][2].rank
    /\ start_amount - money["player"] >= money["player"]

\* C7: double down doubles the hand's bet, adds exactly one card to the
\* hand and ends the hand's turn whatever the score: no further move is
\* prompted for the hand and no further card is added to it, bust or not.
C7_DoubleDown ==
    /\ [][\A e \in Players :
            at_prompt(e) /\ move' = "D" =>
               /\ money'[e] = 2 * money[e]
               /\ Len(hand'[e]) = Len(hand[e]) + 1
               /\ SubSeq(hand'[e], 1, Len(hand[e])) = hand[e]
               /\ pc' = after_play(e)]_vars
    /\ [][move = "D" /\ move' = "D" =>
             \A e \in Players : hand'[e] = hand[e]]_vars
    /\ [](move = "D" => pc \notin {"play_player", "play_split"})

\* the card of the double down made the hand bust and the turn is over
C7_Witness ==
    /\ move = "D"
    /\ pc = "enter_split"
    /\ Len(hand["player"]) = 3
    /\ score21("player") > 21
    /\ money["player"] = 1000

\* a step in which the X of the move prompt is taken
takes_split == at_prompt("player") /\ prompt("X") /\ move' = "X" /\ split'

\* C8: a split moves exactly one of the two cards of the main hand to the
\* empty split hand, deals one card from the deck to each of the two hands,
\* gives the split hand the bet of the main hand, leaves the main hand's bet
\* and the bankroll unchanged and sets the split flag: both hands then hold
\* 2 cards, one of the pair each, and the deck is 2 cards shorter.
C8_SplitEffect ==
    [][takes_split =>
          LET old == hand["player"]
              main == hand'["player"]
              second == hand'["player_split"]
          IN  /\ Len(old) = 2 /\ hand["player_split"] = <<>>
              /\ Len(main) = 2 /\ Len(second) = 2
              /\ {main[1], second[1]} = {old[1], old[2]}
              /\ main[1] # second[1]
              /\ main[2] \in deck /\ second[2] \in deck
              /\ main[2] # second[2]
              /\ deck' = deck \ {main[2], second[2]}
              /\ Cardinality(deck') = Cardinality(deck) - 2
              /\ hand'["dealer"] = hand["dealer"]
              /\ money'["player_split"] = money["player"]
              /\ money'["player"] = money["player"]
              /\ start_amount' = start_amount
              /\ split' /\ ~split]_vars

\* right after a split: two hands of 2 cards with the same bet
C8_Witness ==
    /\ split
    /\ move = "X"
    /\ pc = "play_player"
    /\ Len(hand["player"]) = 2
    /\ Len(hand["player_split"]) = 2
    /\ hand["player"][1].rank = hand["player_split"][1].rank
    /\ money["player_split"] = money["player"]
    /\ money["player"] = 500
    /\ Cardinality(deck) = Cardinality(make_cards) - 6

\* C9 as stated: after a split the main hand goes on with its turn and may
\* hit, stand or double down again, unless its score is at or above 21,
\* when its turn ends without a prompt.
C9_AfterSplitAsStated ==
    /\ [][takes_split =>
             (pc' = "play_player" <=> best_total(hand'["player"]) < 21)]_vars
    /\ [](at_prompt("player") /\ move = "X" =>
             prompt("H") /\ prompt("S") /\ prompt("D"))

\* C9 amended: after a split the main hand goes on with its turn and may
\* hit or stand, but neither double down nor split again, unless its score
\* is at or above 21, when its turn ends without a prompt.
C9_AfterSplit ==
    /\ [][takes_split =>
             (pc' = "play_player" <=> best_total(hand'["player"]) < 21)]_vars
    /\ [][takes_split /\ pc' # "play_player" => pc' = "enter_split"]_vars
    /\ [](at_prompt("player") /\ move = "X" =>
             /\ prompt("H") /\ prompt("S")
             /\ ~prompt("D") /\ ~prompt("X"))

\* the split gave the main hand 21 and its turn is over
C9_Witness ==
    /\ pc = "enter_split"
    /\ move = "X"
    /\ split
    /\ score21("player") = 21

\* the bankroll the session starts with
first_bankroll == CHOOSE b \in {roundup(x) : x \in StartDraws} : TRUE

\* the settlement of the hand of e, if it exists
delta(e) ==
    IF exists(e)
    THEN payout(score21(e), score21("dealer"), money[e])
    ELSE 0

\* C10: the bankroll change of a round is the sum of the settlements of the
\* hands that exist, each against the same final dealer score with its own
\* score and bet; without a split the second hand is neither played nor
\* settled and the bankroll changes by the settlement of the main hand.
C10_IndependentSettlement ==
    /\ [](pc = "continue" /\ rounds = 0 =>
             start_amount = first_bankroll + delta("player") + delta("player_split"))
    /\ [][pc = "wins_player" => start_amount' = start_amount + delta("player")]_vars
    /\ [][pc = "wins_split" =>
             start_amount' = start_amount + delta("player_split")]_vars
    /\ [][(pc = "wins_player" \/ pc = "wins_split") =>
             hand' = hand /\ money' = money /\ split' = split]_vars
    /\ [](~split => hand["player_split"] = <<>> /\ money["player_split"] = 0)
    /\ [](~split => pc # "play_split")

\* after a split the main hand won its bet and the split hand went bust
C10_Witness ==
    /\ pc = "continue"
    /\ rounds = 0
    /\ split
    /\ score21("player") <= 21
    /\ score21("player_split") > 21
    /\ delta("player") = 500
    /\ delta("player_split") = 0 - 500
    /\ start_amount = first_bankroll

\* C11: the quit command Q is accepted at every prompt where a bet or a
\* move is requested and ends the session at once: after a Q at the bet
\* prompt or at a move prompt no card is dealt, no hand is settled and the
\* bankroll is not changed.
C11_QuitAnywhere ==
    /\ [](\A e \in Players : at_prompt(e) => prompt("Q"))
    /\ [][pc' = "quit" =>
             /\ pc = "game" \/ pc = "play_player" \/ pc = "play_split"
             /\ UNCHANGED <<start_amount, deck, hand, money, split>>]_vars
    /\ [][pc # "quit"]_vars

\* the conditions the rules put on doubling down and on splitting the hand
\* of e
may_double(e) ==
    /\ e = "player"
    /\ Len(hand[e]) = 2
    /\ ~split
    /\ start_amount - money[e] >= money[e]

may_split(e) == may_double(e) /\ hand[e][1].rank = hand[e][2].rank

\* the letters that are moves of the hand of e now
available(e) ==
    {"H", "S"} \cup (IF may_double(e) THEN {"D"} ELSE {})
               \cup (IF may_split(e) THEN {"X"} ELSE {})

\* a step that changes the bets, the bankroll, the hands or the deck
changes_round ==
    \/ money' # money
    \/ start_amount' # start_amount
    \/ hand' # hand
    \/ deck' # deck
    \/ split' # split

\* C12: the bet prompt accepts an amount only if it is at least 1 and at
\* most the bankroll, and then makes it the bet of the main hand; any other
\* input but quit leaves the bets, the bankroll, the hands and the deck as
\* they are and the prompt is shown again.  At a move prompt a letter that
\* is not a move, or not a move available now, changes nothing and the
\* prompt is shown again.
C12_Reprompt ==
    /\ [][pc = "game" /\ pc' = "play_player" =>
             /\ 1 <= money'["player"] /\ money'["player"] <= start_amount
             /\ money'["player_split"] = money["player_split"]
             /\ UNCHANGED <<start_amount, hand, deck, split>>]_vars
    /\ [][pc = "game" /\ start_amount >= 1 =>
             \/ pc' = "play_player"
             \/ pc' = "quit"
             \/ pc' = "game" /\ ~changes_round]_vars
    /\ [][\A e \in Players :
             at_prompt(e) =>
                \/ move' \in available(e) /\ (changes_round \/ pc' # pc)
                \/ pc' = pc /\ move' = move /\ ~changes_round]_vars

\* the whole bankroll was accepted as the bet, and the main hand is at a
\* prompt where D and X are no moves
C12_Witness ==
    /\ at_prompt("player")
    /\ money["player"] = start_amount
    /\ move = "H"
    /\ Len(hand["player"]) = 3
    /\ available("player") = {"H", "S"}

\* C13: when the bankroll is below 1 at the top of the session loop the
\* session ends as broke, with no bet prompted and no further round; a bet
\* is only ever prompted when the bankroll is at least 1.
C13_Broke ==
    /\ [][pc = "game" /\ start_amount < 1 =>
             /\ pc' = "broke"
             /\ UNCHANGED <<start_amount, deck, hand, money, split>>]_vars
    /\ [][pc # "broke"]_vars
    /\ [][pc = "game" /\ (pc' = "play_player" \/ pc' = "quit") =>
             start_amount >= 1]_vars
    /\ [](pc = "broke" => start_amount < 1 /\ money = NoMoney)

\* the first round took the whole bankroll and the session ended as broke
C13_Witness ==
    /\ pc = "broke"
    /\ rounds = 1
    /\ start_amount = 0
    /\ money = NoMoney
    /\ Len(hand["player"]) = 2

\* the cards of a hand, and the cards of all three hands
cards_of(h) == {h[i] : i \in 1..Len(h)}

in_hands(hs) == UNION {cards_of(hs[e]) : e \in Entities}

\* no card twice within a hand or in two hands
no_duplicate(hs) ==
    /\ \A e \in Entities : Cardinality(cards_of(hs[e])) = Len(hs[e])
    /\ \A e, f \in Entities : e # f => cards_of(hs[e]) \cap cards_of(hs[f]) = {}

\* the deck make_cards builds: a card of every rank in every suit
full_deck == {Card(r, s) : r \in AllRanks, s \in AllSuits}

\* the hands that got a card in this step
drawing_hands == {e \in Entities : hand'[e] # hand[e]}

\* C14: in every state of a round the deck and the three hands partition
\* the distinct (rank, suit) cards of make_cards (52 in the full deck): no
\* card is twice in deck and hands, no card is put back or added to the
\* deck during a round, and every draw moves one card from the deck to one
\* hand.
C14_Partition ==
    /\ [](/\ make_cards \subseteq full_deck
          /\ Cardinality(full_deck) = 52
          /\ deck \cup in_hands(hand) = make_cards
          /\ deck \cap in_hands(hand) = {}
          /\ no_duplicate(hand)
          /\ Cardinality(deck) + Len(hand["player"])
                + Len(hand["player_split"]) + Len(hand["dealer"])
               = Cardinality(make_cards))
    /\ [][pc # "continue" =>
             /\ deck' \subseteq deck
             /\ deck \ deck' = in_hands(hand') \ in_hands(hand)
             /\ in_hands(hand) \subseteq in_hands(hand')
             /\ Cardinality(deck \ deck') <= Cardinality(drawing_hands)
             /\ \A e \in Entities :
                   Cardinality(cards_of(hand'[e]) \ in_hands(hand)) <= 1]_vars

\* a round in which every hand drew: after a split the two hands and the
\* dealer hold 3 cards each, all nine cards of the deck
C14_Witness ==
    /\ split
    /\ Len(hand["player"]) = 3
    /\ Len(hand["player_split"]) = 3
    /\ Len(hand["dealer"]) = 3
    /\ deck = {}
    /\ in_hands(hand) = make_cards

\* C15: a player hand whose score is over 21 is bust whatever its cards:
\* no further move is prompted for it, no further card is added to it, and
\* at settlement it loses its bet whatever the score of the dealer, also
\* when the dealer is bust.
C15_Bust ==
    /\ [][\A e \in Players :
             pc # "continue" /\ score21(e) > 21 => hand'[e] = hand[e]]_vars
    /\ [][\A e \in Players :
             pc = play_pc(e) /\ score21(e) > 21 =>
                /\ pc' = after_play(e)
                /\ move' = move
                /\ ~changes_round]_vars
    /\ [][\A e \in Players :
             pc = wins_pc(e) /\ exists(e) /\ score21(e) > 21 =>
                start_amount' = start_amount - money[e]]_vars

\* after a split the second hand went bust and lost its bet although the
\* dealer went bust too; the main hand won its bet
C15_Witness ==
    /\ pc = "continue"
    /\ rounds = 0
    /\ split
    /\ score21("player_split") > 21
    /\ score21("player") <= 21
    /\ score21("dealer") > 21
    /\ money["player_split"] = 500
    /\ start_amount = first_bankroll

\* C16: Hit and Stand are offered at every move prompt; Double down is
\* offered, and a D accepted, only when the hand played is the main hand,
\* it has exactly 2 cards, there was no split in the round and the bankroll
\* less the bet of the hand is at least that bet; so it is never offered
\* after a hit nor during the turn of the split hand.
C16_MovesOffered ==
    \A e \in Players :
       at_prompt(e) =>
          /\ prompt("H") /\ prompt("S")
          /\ prompt("D") => may_double(e)
          /\ move = "H" => ~prompt("D")
          /\ Len(hand[e]) > 2 => ~prompt("D")
          /\ e = "player_split" => ~prompt("D")

\* the main hand has hit and could pay for a double down, which is not
\* offered
C16_Witness ==
    /\ at_prompt("player")
    /\ move = "H"
    /\ Len(hand["player"]) = 3
    /\ ~split
    /\ start_amount - money["player"] >= money["player"]
    /\ ~prompt("D")

\* the order of the phases of a round: where game() may be after a step
\* that starts in phase p
next_phases(p) ==
    CASE p = "game" -> {"game", "play_player", "quit", "broke"}
      [] p = "play_player" -> {"play_player", "enter_split", "crashed"}
      [] p = "enter_split" -> {"play_split", "check_dealer"}
      [] p = "play_split" -> {"play_split", "check_dealer", "crashed"}
      [] p = "check_dealer" -> {"dealer_play", "wins_player"}
      [] p = "dealer_play" -> {"dealer_play", "wins_player", "crashed"}
      [] p = "wins_player" -> {"wins_split"}
      [] p = "wins_split" -> {"continue"}
      [] p = "continue" -> {"game"}
      [] OTHER -> {}

\* C18: the phases of a round come in a fixed order: the bet is accepted
\* before any move of the player; the turn of the main hand ends before
\* that of the split hand begins; the turns of the player end before the
\* dealer draws; the turn of the dealer ends before a hand is settled; the
\* main hand is settled before the split hand; and the bankroll changes
\* only in the settlement, never while betting, in a turn of the player or
\* in the turn of the dealer.
C18_PhaseOrder ==
    /\ [][pc' \in next_phases(pc)]_vars
    /\ [][pc = "game" => UNCHANGED <<hand, deck, split, move>>]_vars
    /\ [](pc \in {"play_player", "play_split"} => money["player"] >= 1)
    /\ [][pc = "play_player" => hand'["dealer"] = hand["dealer"]]_vars
    /\ [][pc = "play_split" =>
             /\ hand'["player"] = hand["player"]
             /\ money'["player"] = money["player"]
             /\ hand'["dealer"] = hand["dealer"]]_vars
    /\ [][pc = "dealer_play" =>
             /\ hand'["player"] = hand["player"]
             /\ hand'["player_split"] = hand["player_split"]
             /\ money' = money /\ split' = split]_vars
    /\ [][(pc = "wins_player" \/ pc = "wins_split") =>
             UNCHANGED <<hand, deck, money, split>>]_vars
    /\ [][start_amount' # start_amount =>
             pc = "wins_player" \/ (pc = "wins_split" /\ split)]_vars

\* a round with all its phases: a hit of the main hand after a split, a
\* draw of the dealer, and both hands settled as won
C18_Witness ==
    /\ pc = "continue"
    /\ rounds = 0
    /\ split
    /\ Len(hand["player"]) = 3
    /\ Len(hand["dealer"]) = 3
    /\ start_amount = first_bankroll + 1000

\* C19: nothing but the bankroll carries over to the next round: after the
\* reset that follows the settlement the deck is a fresh full deck with 4
\* cards dealt from it (48 of the 52 left), the main hand and the dealer
\* have 2 cards each, the split hand is empty, both bets are 0 and the
\* split flag is false, and the bankroll has the value it had after the
\* settlement.
C19_Reset ==
    /\ [][pc = "continue" =>
             /\ pc' = "game"
             /\ rounds' = rounds + 1
             /\ start_amount' = start_amount]_vars
    /\ [](pc = "game" =>
             /\ Cardinality(deck) = Cardinality(make_cards) - 4
             /\ Cardinality(full_deck) - 4 = 48
             /\ deck \cup in_hands(hand) = make_cards
             /\ deck \cap in_hands(hand) = {}
             /\ Len(hand["player"]) = 2
             /\ Len(hand["dealer"]) = 2
             /\ hand["player_split"] = <<>>
             /\ money["player"] = 0
             /\ money["player_split"] = 0
             /\ ~split)

\* the second round begins, after a round with a split that both hands
\* lost: the bankroll is what the settlement left and the rest is new
C19_Witness ==
    /\ pc = "game"
    /\ rounds = 1
    /\ start_amount = 0
    /\ ~split
    /\ money["player"] = 0 /\ money["player_split"] = 0
    /\ hand["player_split"] = <<>>
    /\ Len(hand["player"]) = 2
    /\ Len(hand["dealer"]) = 2
    /\ Cardinality(deck) = Cardinality(make_cards) - 4

\* the bets staked on the two hands
staked == money["player"] + money["player_split"]

\* C20: in every state of a round the bets on the main hand and the split
\* hand together are at most the bankroll the round started with (doubling
\* and splitting never both happen in a round); so the bankroll is never
\* negative after a settlement, and the session goes broke only with a
\* bankroll of exactly 0.
C20_Stakes ==
    /\ pc \in {"play_player", "enter_split", "play_split", "check_dealer",
               "dealer_play", "wins_player"} => staked <= start_amount
    /\ rounds = 0 => staked <= first_bankroll
    /\ money["player"] >= 0 /\ money["player_split"] >= 0
    /\ ~(split /\ move = "D")
    /\ split => money["player_split"] = money["player"]
    /\ start_amount >= 0
    /\ pc = "broke" => start_amount = 0

\* the whole bankroll was staked on the two hands of a split and lost: the
\* bankroll is 0
C20_Witness ==
    /\ pc = "continue"
    /\ rounds = 0
    /\ split
    /\ staked = first_bankroll
    /\ start_amount = 0

\* a step in which the hand of e, not empty before, gets a card from the
\* deck
draws_card(e) ==
    /\ hand[e] # <<>>
    /\ Len(hand'[e]) = Len(hand[e]) + 1
    /\ SubSeq(hand'[e], 1, Len(hand[e])) = hand[e]

\* the total of a hand with every ace counted as 1
low_total(h) == set_min(totals(h))

\* C21: every round that is started reaches the end of its settlement, or
\* a quit, when the player in the end types an accepted bet and an accepted
\* move at each prompt: the turn of each player hand ends after a bounded
\* number of hits, as every hit raises the total of the hand with its aces
\* counted as 1, and the turn of the dealer ends after a bounded number of
\* draws, although a drawn card may lower the score of the dealer.  (A
\* hand starts with 2 cards and draws only at a total of at most 21, so it
\* never holds more than 2 + 20 cards.)
C21_RoundEnds ==
    /\ <>(pc = "continue" \/ pc = "quit")
    /\ (pc = "play_player") ~> (pc = "enter_split")
    /\ (pc = "play_split") ~> (pc = "check_dealer")
    /\ (pc = "dealer_play") ~> (pc = "wins_player")
    /\ [][\A e \in Entities :
             draws_card(e) =>
                /\ low_total(hand'[e]) > low_total(hand[e])
                /\ low_total(hand[e]) <= 21]_vars
    /\ [](\A e \in Entities : Len(hand[e]) <= 2 + 20)

\* the round is over, and in it the third card of the dealer lowered the
\* dealer's score
C21_Witness ==
    /\ pc = "continue"
    /\ Len(hand["dealer"]) >= 3
    /\ hand_value(SubSeq(hand["dealer"], 1, 3), limit["dealer"])
          < hand_value(SubSeq(hand["dealer"], 1, 2), limit["dealer"])

====
